---- MODULE Spec2Model ----
(***************************************************************************)
(* The agent tool loop of SAMA-Base_Agent_Implementation:                  *)
(*   src/src/agents/base.py   BaseAgent (run, reset, add_tool, ...)        *)
(*   src/src/core/memory.py   ConversationMemory, Message, FileContext     *)
(*   src/src/core/schema.py   AgentStep, AgentResponse, ToolResult         *)
(*   src/src/tools/*.py       BaseTool.run and the tools' _run bodies      *)
(*                                                                         *)
(* Python values are encoded as follows.  None is the string None below;   *)
(* a dict is a TLA+ function over its keys, an absent optional dict is the  *)
(* empty dict (the code reads them through "x or {}");                     *)
(* a list is a sequence; an exception is a record [type, text].            *)
(* Bilingual texts of the source are kept by their English half.           *)
(***************************************************************************)
EXTENDS Integers, Sequences, FiniteSets, TLC

VARIABLES
    state,            \* BaseAgent.state            (AgentState value)
    current_step,     \* BaseAgent.current_step
    steps,            \* BaseAgent.steps            (list of AgentStep)
    tools,            \* BaseAgent.tools            (names registered)
    tool_call_ids,    \* BaseAgent._tool_call_ids   (NoAttr until first set)
    messages,         \* ConversationMemory.messages
    system_message,   \* ConversationMemory.system_message
    files,            \* ConversationMemory.files   (path -> FileContext)
    running,          \* a call of run() is in progress
    responses,        \* what the backend answered in the current/last run
    result,           \* the AgentResponse the last run() returned
    raised,           \* the exception the last call let escape to the caller
    held_response,    \* the AgentResponse object the caller last received
    dispatched,       \* the last direct call of a method below run()
    agent2            \* a second BaseAgent of the same process (or NoAgent)

vars == <<state, current_step, steps, tools, tool_call_ids, messages,
          system_message, files, running, responses, result, raised,
          held_response, dispatched, agent2>>

agent_vars == <<state, current_step, steps>>
memory_vars == <<messages, system_message, files>>
run_vars == <<running, responses, result, raised, held_response>>

----------------------------------------------------------------------------
(* Bounds of the model and configured values                               *)

MaxIterations == 2      \* config.agent.max_iterations (default 10, gt 0)
MaxEntries == 2         \* config.memory.max_entries   (default 100, gt 0)
MaxDirectives == 2      \* longest tool_calls list a response carries
MaxCalls == 2           \* direct calls of _process_tool_calls in a behaviour

----------------------------------------------------------------------------
(* Python values                                                           *)

None == "<None>"

\* str(x) for x a str or None
Str(x) == IF x = None THEN "None" ELSE x

\* bool(x) for x a str or None
Truthy(x) == x # None /\ x # ""

EmptyDict == [k \in {} |-> None]

Return(v) == [kind |-> "return", value |-> v]
Raise(type, text) == [kind |-> "raise", value |-> [type |-> type, text |-> text]]

\* the classes caught by "except Exception"
ExceptionSubclasses ==
    {"Exception", "TypeError", "ValueError", "IndexError", "RuntimeError",
     "OSError", "TimeoutError", "JSONDecodeError", "APIConnectionError"}

----------------------------------------------------------------------------
(* src/src/core/schema.py                                                  *)

IDLE == "idle"
THINKING == "thinking"
EXECUTING == "executing"
COMPLETED == "completed"
ERROR == "error"
STOPPED == "stopped"

SUCCESS == "success"
TOOL_ERROR == "error"
TIMEOUT == "timeout"

ToolCall(tool_name, arguments, call_id) ==
    [tool_name |-> tool_name, arguments |-> arguments, call_id |-> call_id]

ToolResult(tool_name, status, output, error_message) ==
    [tool_name |-> tool_name, status |-> status, output |-> output,
     error_message |-> error_message]

\* the fields of the AgentStep dataclass and those without a default
AgentStepFields ==
    {"step_number", "thought", "tool_calls", "tool_results", "response",
     "timestamp"}
AgentStepRequired == {"step_number", "thought"}

\* AgentStep(**kwargs): the generated __init__ rejects a keyword that is no
\* field, and a call that leaves a field without default unset
AgentStep(kwargs) ==
    IF ~(DOMAIN kwargs \subseteq AgentStepFields)
    THEN LET bad == CHOOSE k \in DOMAIN kwargs : k \notin AgentStepFields
         IN  Raise("TypeError",
                   "AgentStep.__init__() got an unexpected keyword argument '"
                   \o bad \o "'")
    ELSE IF ~(AgentStepRequired \subseteq DOMAIN kwargs)
    THEN Raise("TypeError",
               "AgentStep.__init__() missing required positional argument")
    ELSE Return([step_number |-> kwargs["step_number"],
                 thought |-> kwargs["thought"],
                 tool_calls |-> <<>>,
                 tool_results |-> <<>>,
                 response |-> None])

AgentResponse(success, final_answer, steps_, total_iterations, error_message) ==
    [success |-> success, final_answer |-> final_answer, steps |-> steps_,
     total_iterations |-> total_iterations, error_message |-> error_message]

\* no AgentResponse returned (yet): total_iterations is -1
NoResponse == AgentResponse(FALSE, None, <<>>, -1, None)

\* The AgentResponse the caller holds from the last run() that returned one:
\* its fields as constructed, and whether its steps attribute is still the
\* list object BaseAgent.steps is bound to (steps=self.steps at lines 530,
\* 546 and 562 passes the list itself, not a copy)
NothingHeld == [response |-> NoResponse, aliased |-> FALSE]

hold(response) == [response |-> response, aliased |-> TRUE]

\* what the caller reads in the response it holds, the agent's list being steps_
read_held(h, steps_) ==
    IF h.aliased THEN [h.response EXCEPT !.steps = steps_] ELSE h.response

\* self.steps = [] (lines 402 and 631) binds BaseAgent.steps to a new list;
\* the response keeps the list it was given
Rebound(h, steps_) == [response |-> read_held(h, steps_), aliased |-> FALSE]

----------------------------------------------------------------------------
(* src/src/core/memory.py                                                  *)

Message(role, content, metadata) ==
    [role |-> role, content |-> content, metadata |-> metadata]

\* ConversationMemory.system_message = None
NoMessage == [role |-> None]

\* Message.to_openai_format
to_openai_format(msg) ==
    LET base == [role |-> msg.role, content |-> msg.content]
    IN  IF msg.role = "tool"
        THEN (IF "tool_call_id" \in DOMAIN msg.metadata
              THEN [tool_call_id |-> msg.metadata["tool_call_id"]]
              ELSE EmptyDict)
             @@ (IF "tool_name" \in DOMAIN msg.metadata
                 THEN [name |-> msg.metadata["tool_name"]]
                 ELSE EmptyDict)
             @@ base
        ELSE IF msg.role = "assistant" /\ "tool_calls" \in DOMAIN msg.metadata
        THEN [tool_calls |-> msg.metadata["tool_calls"]] @@ base
        ELSE base

evict_oldest_kept(msgs) ==
    IF Len(msgs) > MaxEntries
    THEN <<msgs[1]>> \o SubSeq(msgs, Len(msgs) - MaxEntries + 2, Len(msgs))
    ELSE msgs

\* the eviction loop of _add_message: pop(0) while longer than max_entries
RECURSIVE evict(_)
evict(msgs) == IF Len(msgs) > MaxEntries THEN evict(Tail(msgs)) ELSE msgs

\* ConversationMemory._add_message; metadata is the dict "metadata or {}"
add_message(msgs, role, content, metadata) ==
    evict(Append(msgs, Message(role, content, metadata)))

add_user_message(msgs, content) == add_message(msgs, "user", content, EmptyDict)

add_assistant_message(msgs, content, metadata) ==
    add_message(msgs, "assistant", content, metadata)

\* add_tool_message: meta = metadata or {}; meta["tool_name"] = tool_name
add_tool_message(msgs, content, tool_name, metadata) ==
    add_message(msgs, "tool", content, [tool_name |-> tool_name] @@ metadata)

get_messages_system_last(sys, msgs) ==
    IF sys # NoMessage THEN msgs \o <<sys>> ELSE msgs

\* ConversationMemory.get_messages
get_messages(sys, msgs) == IF sys # NoMessage THEN <<sys>> \o msgs ELSE msgs

\* ConversationMemory.get_openai_messages
get_openai_messages(sys, msgs) ==
    LET all == get_messages(sys, msgs)
    IN  [i \in 1..Len(all) |-> to_openai_format(all[i])]

clear_messages_keeps_last(msgs, keep_system) ==
    IF msgs = <<>> THEN <<>> ELSE <<msgs[Len(msgs)]>>

\* ConversationMemory.clear: messages afterwards, system message afterwards
clear_messages(msgs, keep_system) == <<>>
clear_system(sys, keep_system) == IF keep_system THEN sys ELSE NoMessage

FileContext(path, content, abstract, metadata) ==
    [path |-> path, content |-> content, abstract |-> abstract,
     metadata |-> metadata]

\* no FileContext (the None of dict.get and of update_file)
NoFile == [path |-> None]

get_summary_with_content(f) ==
    [path |-> f.path,
     size_info |-> IF Truthy(f.content) THEN Len(f.content) ELSE -1,
     abstract |-> f.abstract,
     content |-> f.content]

\* FileContext.get_summary: the size only of a content that is truthy
get_summary(f) ==
    [path |-> f.path,
     size_info |-> IF Truthy(f.content) THEN Len(f.content) ELSE -1,
     abstract |-> f.abstract]

\* ConversationMemory.get_files_summary, as the set of its lines
get_files_summary(fs) ==
    [count |-> Cardinality(DOMAIN fs),
     lines |-> {get_summary(fs[p]) : p \in DOMAIN fs}]

\* ConversationMemory.get_context_summary: tool usage of the retained log
get_context_summary(msgs, fs) ==
    IF msgs = <<>>
    THEN [history |-> FALSE, tools_used |-> {}, files |-> 0]
    ELSE [history |-> TRUE,
          tools_used |-> {msgs[i].metadata["tool_name"] :
                            i \in {j \in 1..Len(msgs) : msgs[j].role = "tool"}},
          files |-> Cardinality(DOMAIN fs)]

----------------------------------------------------------------------------
(* src/src/core/prompts.py and the prompt handling of BaseAgent            *)

\* get_system_prompt: the template filled with the tools' descriptions; the
\* prompt is the sequence of the sections appended to it
get_system_prompt(tool_names) ==
    [tools_description |-> tool_names, workspace_section |-> <<>>]

\* BaseAgent._inject_workspace_to_prompt: appends the workspace section
inject_workspace_to_prompt(prompt, msgs, fs) ==
    [prompt EXCEPT !.workspace_section =
        Append(@, [workspace |-> "workspace",
                   files_summary |-> get_files_summary(fs),
                   working_memory |-> get_context_summary(msgs, fs)])]

\* ConversationMemory.set_system_message
set_system_message(content) == Message("system", content, EmptyDict)

----------------------------------------------------------------------------
(* src/src/tools: the tools' _run bodies and BaseTool.run                  *)

AllTools == {"calculator", "execute_code", "shell", "python"}

\* the tools whose _run starts a subprocess with a timeout
SubprocessTools == {"execute_code", "shell", "python"}

\* what the environment does to one tool execution: the work completes, the
\* subprocess outlives its timeout, or the work fails (the expression is
\* rejected, the subprocess cannot be started)
Envs == {"ok", "timeout", "fail"}

\* the keyword parameters of each tool's _run, and those without a default
RunParameters(tool) ==
    CASE tool = "read_file" -> {"file_path", "encoding"}
      [] tool = "write_file" -> {"file_path", "content", "encoding", "append"}
      [] tool = "list_directory" -> {"directory_path", "recursive"}
      [] tool = "file" -> {"operation", "path", "content", "encoding",
                           "append", "recursive", "backup", "create_dirs"}
      [] tool = "calculator" -> {"expression"}
      [] tool = "execute_code" -> {"code", "language", "timeout"}
      [] tool = "shell" -> {"command", "timeout", "working_directory"}
      [] tool = "python" -> {"code", "timeout", "save_to", "run_file",
                             "persistent"}

RunRequired(tool) ==
    CASE tool = "read_file" -> {"file_path"}
      [] tool = "write_file" -> {"file_path", "content"}
      [] tool = "list_directory" -> {"directory_path"}
      [] tool = "file" -> {"operation", "path"}
      [] tool = "calculator" -> {"expression"}
      [] tool = "execute_code" -> {"code"}
      [] tool = "shell" -> {"command"}
      [] tool = "python" -> {}

\* CalculatorTool._run: _validate_expression raises ValueError
CalculatorTool_run(kwargs, env) ==
    IF env = "fail"
    THEN Raise("ValueError", "Expression syntax error")
    ELSE Return("56088")

\* CodeExecutorTool._run and _execute_python: TimeoutExpired becomes
\* TimeoutError, nothing else is caught
CodeExecutorTool_run(kwargs, env) ==
    IF "language" \in DOMAIN kwargs /\ kwargs["language"] \notin {"python", "javascript"}
    THEN Raise("ValueError", "Unsupported language: " \o kwargs["language"])
    ELSE CASE env = "ok" -> Return("Output: 1")
           [] env = "timeout" ->
                Raise("TimeoutError", "Code execution timeout (30 seconds)")
           [] env = "fail" -> Raise("OSError", "cannot start subprocess")

\* ShellTool: policy and whitelist of the default construction (config.tools
\* has no shell_tool section, so the else branch of __init__ applies)
ShellPolicy == "whitelist"
ShellWhitelist ==
    {"echo", "ls", "dir", "cat", "type", "pwd", "cd", "head", "tail", "grep",
     "find", "where", "which"}
DANGEROUS_COMMANDS ==
    {"rm -rf /", "rm -rf /*", "mkfs", "dd if=", ":(){:|:&};:",
     "chmod -R 777 /", "chown -R", "> /dev/sda"}

\* the commands given to the shell tool
ShellCommands ==
    {"cat /dev/zero", "sleep 60", "rm -rf /", "lsblk -f", "echo hi",
     "sudo mkfs /dev/sdb", "LS -la", "  ", "cat a; dd if=/dev/zero"}

\* the texts of the model, character by character
Chars(text) ==
    CASE text = "cat /dev/zero" ->
            <<"c", "a", "t", " ", "/", "d", "e", "v", "/", "z", "e", "r", "o">>
      [] text = "sleep 60" ->
            <<"s", "l", "e", "e", "p", " ", "6", "0">>
      [] text = "rm -rf /" ->
            <<"r", "m", " ", "-", "r", "f", " ", "/">>
      [] text = "lsblk -f" ->
            <<"l", "s", "b", "l", "k", " ", "-", "f">>
      [] text = "echo hi" ->
            <<"e", "c", "h", "o", " ", "h", "i">>
      [] text = "sudo mkfs /dev/sdb" ->
            <<"s", "u", "d", "o", " ", "m", "k", "f", "s", " ", "/", "d", "e", "v", "/", "s", "d", "b">>
      [] text = "LS -la" ->
            <<"L", "S", " ", "-", "l", "a">>
      [] text = "  " ->
            <<" ", " ">>
      [] text = "cat a; dd if=/dev/zero" ->
            <<"c", "a", "t", " ", "a", ";", " ", "d", "d", " ", "i", "f", "=", "/", "d", "e", "v", "/", "z", "e", "r", "o">>
      [] text = "rm -rf /*" ->
            <<"r", "m", " ", "-", "r", "f", " ", "/", "*">>
      [] text = "mkfs" ->
            <<"m", "k", "f", "s">>
      [] text = "dd if=" ->
            <<"d", "d", " ", "i", "f", "=">>
      [] text = ":(){:|:&};:" ->
            <<":", "(", ")", "{", ":", "|", ":", "&", "}", ";", ":">>
      [] text = "chmod -R 777 /" ->
            <<"c", "h", "m", "o", "d", " ", "-", "R", " ", "7", "7", "7", " ", "/">>
      [] text = "chown -R" ->
            <<"c", "h", "o", "w", "n", " ", "-", "R">>
      [] text = "> /dev/sda" ->
            <<">", " ", "/", "d", "e", "v", "/", "s", "d", "a">>
      [] text = "echo" ->
            <<"e", "c", "h", "o">>
      [] text = "ls" ->
            <<"l", "s">>
      [] text = "dir" ->
            <<"d", "i", "r">>
      [] text = "cat" ->
            <<"c", "a", "t">>
      [] text = "type" ->
            <<"t", "y", "p", "e">>
      [] text = "pwd" ->
            <<"p", "w", "d">>
      [] text = "cd" ->
            <<"c", "d">>
      [] text = "head" ->
            <<"h", "e", "a", "d">>
      [] text = "tail" ->
            <<"t", "a", "i", "l">>
      [] text = "grep" ->
            <<"g", "r", "e", "p">>
      [] text = "find" ->
            <<"f", "i", "n", "d">>
      [] text = "where" ->
            <<"w", "h", "e", "r", "e">>
      [] text = "which" ->
            <<"w", "h", "i", "c", "h">>
      [] text = "git" ->
            <<"g", "i", "t">>

\* str.lower
lower_char(c) ==
    CASE c = "L" -> "l"
      [] c = "R" -> "r"
      [] c = "S" -> "s"
      [] OTHER -> c

lower(cs) == [i \in 1..Len(cs) |-> lower_char(cs[i])]

\* command.strip().split()[0], or the empty text when split() is empty
first_word(cs) ==
    LET starts == {i \in 1..Len(cs) : cs[i] # " "}
    IN  IF starts = {} THEN <<>>
        ELSE LET a == CHOOSE i \in starts : \A j \in starts : i <= j
                 stops == {i \in a..Len(cs) : cs[i] = " "}
             IN  SubSeq(cs, a,
                        IF stops = {} THEN Len(cs)
                        ELSE (CHOOSE i \in stops : \A j \in stops : i <= j) - 1)

\* cmd_parts[0].lower()
CommandName(command) == lower(first_word(Chars(command)))

\* pattern in command
CommandContains(command, pattern) ==
    \E i \in 1..(Len(Chars(command)) - Len(Chars(pattern)) + 1) :
        SubSeq(Chars(command), i, i + Len(Chars(pattern)) - 1) = Chars(pattern)

\* str.startswith
StartsWith(name, prefix) ==
    /\ Len(prefix) <= Len(name)
    /\ SubSeq(name, 1, Len(prefix)) = prefix

\* ShellTool.__init__: policy or 'whitelist', whitelist or the default list
\* (None and the empty list are both given as {})
ShellTool_init(policy, whitelist) ==
    [policy |-> IF policy = None THEN ShellPolicy ELSE policy,
     whitelist |-> IF whitelist = {} THEN ShellWhitelist ELSE whitelist]

\* ShellTool._is_command_allowed of a tool with the given policy and whitelist
command_allowed(policy, whitelist, command) ==
    IF \E d \in DANGEROUS_COMMANDS : CommandContains(command, d) THEN FALSE
    ELSE IF policy = "deny_all" THEN FALSE
    ELSE IF policy = "allow_all" THEN TRUE
    ELSE IF policy = "whitelist"
    THEN /\ CommandName(command) # <<>>
         /\ \E allowed \in whitelist :
                \/ CommandName(command) = lower(Chars(allowed))
                \/ StartsWith(CommandName(command), lower(Chars(allowed)))
    ELSE FALSE

\* ShellTool._is_command_allowed of the default construction
is_command_allowed(command) ==
    command_allowed(ShellPolicy, ShellWhitelist, command)

\* the outcome of ShellTool._run once the command was or was not allowed
shell_outcome(allowed, env) ==
    IF ~allowed
    THEN Return("Command denied")
    ELSE CASE env = "ok" -> Return("Stdout: 1")
           [] env = "timeout" ->
                Return("Command execution timeout (30 seconds)")
           [] env = "fail" -> Return("Command execution error: cannot start subprocess")

\* ShellTool._run: every outcome, the timeout included, is a returned text
ShellTool_run(kwargs, env) ==
    shell_outcome(is_command_allowed(kwargs["command"]), env)

\* PythonTool._run and _execute_subprocess: every outcome is a returned text
PythonTool_run(kwargs, env) ==
    IF "code" \notin DOMAIN kwargs /\ "run_file" \notin DOMAIN kwargs
    THEN Return("Error: Must provide code or run_file parameter")
    ELSE CASE env = "ok" -> Return("Output: 1")
           [] env = "timeout" ->
                Return("Code execution timeout (30 seconds)")
           [] env = "fail" -> Return("Code execution error: cannot start subprocess")

----------------------------------------------------------------------------
(* src/src/tools/file_tool.py and unified_file_tool.py                     *)
(* A path is a record [absolute, segs]: whether the text starts with the    *)
(* separator, and its segments.  The file system is the fixed tree below.  *)

FileTools == {"read_file", "write_file", "list_directory", "file"}

PathArg(absolute, segs) == [absolute |-> absolute, segs |-> segs]

\* os.getcwd()
Cwd == <<"home">>

\* config.tools.file_tool.allowed_directories (default)
AllowedDirectories ==
    {PathArg(FALSE, <<".", "workspace">>), PathArg(FALSE, <<".", "outputs">>)}

\* the tree: regular files with their text, directories, symbolic links
RegularFiles ==
    {<<"home", "workspace", "a.txt">>, <<"home", "outputs", "r.txt">>,
     <<"home", "a.txt">>, <<"home", "workspace_evil", "x.txt">>,
     <<"etc", "passwd">>}
Directories ==
    {<<>>, <<"home">>, <<"home", "workspace">>, <<"home", "outputs">>,
     <<"home", "workspace_evil">>, <<"etc">>}
SymbolicLinks == (<<"home", "workspace", "link">> :> <<"etc", "passwd">>)

FileText(target) ==
    IF target = <<"etc", "passwd">> THEN "root:x:0:0:root:/root:/bin/bash"
    ELSE "hello"

\* os.path.normpath on the segments of an absolute path: "." is dropped,
\* ".." drops the segment before it (nothing above the root)
normseg(acc, seg) ==
    IF seg = "." THEN acc
    ELSE IF seg = ".."
    THEN IF acc = <<>> THEN acc ELSE SubSeq(acc, 1, Len(acc) - 1)
    ELSE Append(acc, seg)

RECURSIVE normsegs(_, _)
normsegs(segs, acc) ==
    IF segs = <<>> THEN acc
    ELSE normsegs(Tail(segs), normseg(acc, Head(segs)))

normpath(segs) == normsegs(segs, <<>>)

\* os.path.abspath: normpath(join(getcwd(), path))
abspath(path) ==
    normpath(IF path.absolute THEN path.segs ELSE Cwd \o path.segs)

\* str.startswith on the segment names of the model
NameStartsWith(name, prefix) ==
    \/ name = prefix
    \/ (prefix = "workspace" /\ name = "workspace_evil")

\* abs_path.startswith(allowed_abs) on the texts of two absolute paths
PathStartsWith(abs_path, allowed_abs) ==
    LET n == Len(allowed_abs)
    IN  \/ n = 0
        \/ /\ Len(abs_path) >= n
           /\ SubSeq(abs_path, 1, n - 1) = SubSeq(allowed_abs, 1, n - 1)
           /\ NameStartsWith(abs_path[n], allowed_abs[n])

\* abs_path[len(allowed_abs)] in (os.sep, os.altsep or '') for a text that
\* starts with allowed_abs and is longer (POSIX: altsep is None)
NextCharIsSep(abs_path, allowed_abs) ==
    LET n == Len(allowed_abs)
    IN  /\ n > 0
        /\ Len(abs_path) > n
        /\ abs_path[n] = allowed_abs[n]

\* "if abs_path.startswith(allowed_abs): if len(abs_path) ==
\* len(allowed_abs) or abs_path[len(allowed_abs)] in (os.sep, ...)"
under_allowed(abs_path, allowed_abs) ==
    /\ PathStartsWith(abs_path, allowed_abs)
    /\ \/ abs_path = allowed_abs
       \/ NextCharIsSep(abs_path, allowed_abs)

\* the loop over self.allowed_directories
any_allowed(abs_path) ==
    \E allowed_dir \in AllowedDirectories :
        under_allowed(abs_path, normpath(abspath(allowed_dir)))

\* _is_path_allowed of ReadFileTool, WriteFileTool, ListDirectoryTool and
\* FileTool (the four bodies are the same)
is_path_allowed(file_path) == any_allowed(normpath(abspath(file_path)))

\* the object the operating system resolves an absolute path to: the
\* symbolic link on the way is followed
realpath(segs) ==
    LET linked == {k \in 1..Len(segs) :
                      SubSeq(segs, 1, k) \in DOMAIN SymbolicLinks}
    IN  IF linked = {} THEN segs
        ELSE LET k == CHOOSE i \in linked : \A j \in linked : i <= j
             IN  SymbolicLinks[SubSeq(segs, 1, k)]
                    \o SubSeq(segs, k + 1, Len(segs))

\* what open(), os.path.exists() and os.listdir() act on for a path text
Target(path) == realpath(abspath(path))

exists(path) == Target(path) \in RegularFiles \cup Directories
isdir(path) == Target(path) \in Directories

\* the outcome of a tool body with the files it read and wrote
FileOutcome(outcome, read, written) ==
    [result |-> outcome, read |-> read, written |-> written]

Refused == "Access to this path is not allowed"

\* ReadFileTool._run
ReadFileTool_run(kwargs) ==
    LET file_path == kwargs["file_path"]
    IN  IF ~is_path_allowed(file_path)
        THEN FileOutcome(Raise("PermissionError", Refused), {}, {})
        ELSE IF ~exists(file_path)
        THEN FileOutcome(Raise("FileNotFoundError", "File not found"), {}, {})
        ELSE IF isdir(file_path)
        THEN FileOutcome(Raise("IsADirectoryError", "Is a directory"), {}, {})
        ELSE FileOutcome(Return(FileText(Target(file_path))),
                         {Target(file_path)}, {})

\* WriteFileTool._run
WriteFileTool_run(kwargs) ==
    LET file_path == kwargs["file_path"]
    IN  IF ~is_path_allowed(file_path)
        THEN FileOutcome(Raise("PermissionError", Refused), {}, {})
        ELSE IF isdir(file_path)
        THEN FileOutcome(Raise("IsADirectoryError", "Is a directory"), {}, {})
        ELSE FileOutcome(Return("File written successfully"),
                         {}, {Target(file_path)})

\* ListDirectoryTool._run
ListDirectoryTool_run(kwargs) ==
    LET directory_path == kwargs["directory_path"]
    IN  IF ~is_path_allowed(directory_path)
        THEN FileOutcome(Raise("PermissionError", Refused), {}, {})
        ELSE IF ~exists(directory_path)
        THEN FileOutcome(Raise("FileNotFoundError", "Directory not found"),
                         {}, {})
        ELSE IF ~isdir(directory_path)
        THEN FileOutcome(Raise("NotADirectoryError",
                               "Path is not a directory"), {}, {})
        ELSE FileOutcome(Return("Directory content"),
                         {Target(directory_path)}, {})

\* FileTool._read_file, _write_file, _list_directory: every outcome is a
\* returned text
FileTool_read_file(file_path) ==
    IF ~is_path_allowed(file_path)
    THEN FileOutcome(Return(Refused), {}, {})
    ELSE IF ~exists(file_path)
    THEN FileOutcome(Return("File not found"), {}, {})
    ELSE IF isdir(file_path)
    THEN FileOutcome(Return("Path is a directory, use list operation"),
                     {}, {})
    ELSE FileOutcome(Return("File content: " \o FileText(Target(file_path))),
                     {Target(file_path)}, {})

FileTool_write_file(file_path, content) ==
    IF ~is_path_allowed(file_path)
    THEN FileOutcome(Return(Refused), {}, {})
    ELSE IF content = None
    THEN FileOutcome(Return("Content cannot be empty for write operation"),
                     {}, {})
    ELSE IF isdir(file_path)
    THEN FileOutcome(Return("Error writing file: Is a directory"), {}, {})
    ELSE FileOutcome(Return("File written successfully"),
                     {}, {Target(file_path)})

FileTool_list_directory(directory_path) ==
    IF ~is_path_allowed(directory_path)
    THEN FileOutcome(Return(Refused), {}, {})
    ELSE IF ~exists(directory_path)
    THEN FileOutcome(Return("Directory not found"), {}, {})
    ELSE IF ~isdir(directory_path)
    THEN FileOutcome(Return("Path is not a directory"), {}, {})
    ELSE FileOutcome(Return("Directory content"),
                     {Target(directory_path)}, {})

\* FileTool._run
FileTool_run(kwargs) ==
    LET operation == kwargs["operation"]
        path == kwargs["path"]
        content == IF "content" \in DOMAIN kwargs THEN kwargs["content"]
                   ELSE None
    IN  CASE operation = "read" -> FileTool_read_file(path)
          [] operation = "write" -> FileTool_write_file(path, content)
          [] operation = "list" -> FileTool_list_directory(path)
          [] OTHER -> FileOutcome(Return("Unknown operation type"), {}, {})

\* the _run of a file tool on keywords that bind
file_tool_run(tool, kwargs) ==
    CASE tool = "read_file" -> ReadFileTool_run(kwargs)
      [] tool = "write_file" -> WriteFileTool_run(kwargs)
      [] tool = "list_directory" -> ListDirectoryTool_run(kwargs)
      [] tool = "file" -> FileTool_run(kwargs)

\* tool._run(**kwargs): binding the keywords, then the body
tool_run(tool, kwargs, env) ==
    IF ~(DOMAIN kwargs \subseteq RunParameters(tool))
    THEN Raise("TypeError", "_run() got an unexpected keyword argument")
    ELSE IF ~(RunRequired(tool) \subseteq DOMAIN kwargs)
    THEN Raise("TypeError", "_run() missing required positional argument")
    ELSE CASE tool = "calculator" -> CalculatorTool_run(kwargs, env)
           [] tool = "execute_code" -> CodeExecutorTool_run(kwargs, env)
           [] tool = "shell" -> ShellTool_run(kwargs, env)
           [] tool = "python" -> PythonTool_run(kwargs, env)
           [] tool \in FileTools -> file_tool_run(tool, kwargs).result

\* whether a subprocess was started and outlived its timeout
SubprocessTimedOut(tool, kwargs, env) ==
    /\ env = "timeout"
    /\ tool \in SubprocessTools
    /\ DOMAIN kwargs \subseteq RunParameters(tool)
    /\ RunRequired(tool) \subseteq DOMAIN kwargs
    /\ tool = "execute_code" =>
          ~("language" \in DOMAIN kwargs /\ kwargs["language"] \notin {"python", "javascript"})
    /\ tool = "shell" => is_command_allowed(kwargs["command"])
    /\ tool = "python" => ("code" \in DOMAIN kwargs \/ "run_file" \in DOMAIN kwargs)

\* the try/except of BaseTool.run around the outcome r of _run
run_result(tool, r) ==
    IF r.kind = "return"
    THEN ToolResult(tool, SUCCESS, r.value, None)
    ELSE IF r.value.type = "TimeoutError"
    THEN ToolResult(tool, TIMEOUT, None,
                    "Tool execution timeout: " \o r.value.text)
    ELSE ToolResult(tool, TOOL_ERROR, None,
                    "Tool execution error: " \o r.value.text)

\* BaseTool.run: the tagged result of one execution
BaseTool_run(tool, kwargs, env) ==
    run_result(tool, tool_run(tool, kwargs, env))

----------------------------------------------------------------------------
(* Tool dispatch of BaseAgent                                              *)

PyDict(f) == [type |-> "dict", val |-> f]
PyOther(type) == [type |-> type, val |-> EmptyDict]

\* calling f(**arguments) on a bound method with parameters (self, **kwargs):
\* the exception of the call itself, if it cannot be made
CallError(arguments) ==
    IF arguments.type # "dict"
    THEN Raise("TypeError",
               "argument after ** must be a mapping, not " \o arguments.type)
    ELSE IF "self" \in DOMAIN arguments.val
    THEN Raise("TypeError", "run() got multiple values for argument 'self'")
    ELSE Return(None)

\* BaseAgent._execute_tool
execute_tool(registry, tool_name, arguments, env) ==
    IF tool_name \notin registry
    THEN Return(ToolResult(tool_name, TOOL_ERROR, None,
                           "Unknown tool: " \o tool_name))
    ELSE IF CallError(arguments).kind = "raise"
    THEN CallError(arguments)
    ELSE Return(BaseTool_run(tool_name, arguments.val, env))

\* json.loads on the argument payloads of the model
json_loads(payload) ==
    CASE payload = None ->
            Raise("TypeError", "the JSON object must be str, bytes or bytearray, not NoneType")
      [] payload = "{bad json" ->
            Raise("JSONDecodeError", "Expecting property name enclosed in double quotes")
      [] payload = "[1, 2]" -> Return(PyOther("list"))
      [] payload = "{\"expression\": \"123*456\"}" ->
            Return(PyDict([expression |-> "123*456"]))
      [] payload = "{\"self\": 1}" -> Return(PyDict([self |-> 1]))
      [] payload = "{}" -> Return(PyDict(EmptyDict))

NoException == [type |-> None, text |-> None]

\* no second agent has been constructed
NoAgent == [constructed |-> FALSE]

\* hasattr(tool_call, "id") fails for the id NoAttr
NoAttr == "<no attribute>"

\* getattr(tool_call, "id", None) or f"call_{tool_name}_{i}"
CallId(tool_call, i) ==
    LET id == IF tool_call.id = NoAttr THEN None ELSE tool_call.id
    IN  IF Truthy(id) THEN id
        ELSE "call_" \o tool_call.name \o "_" \o ToString(i)

RecordCallOnly(steps_, call_record, tool_result) ==
    IF steps_ = <<>> THEN steps_
    ELSE [steps_ EXCEPT ![Len(steps_)].tool_calls = Append(@, call_record)]

\* steps[-1] with a call record and its result appended ("if self.steps")
RecordCall(steps_, call_record, tool_result) ==
    IF steps_ = <<>> THEN steps_
    ELSE [steps_ EXCEPT
            ![Len(steps_)].tool_calls = Append(@, call_record),
            ![Len(steps_)].tool_results = Append(@, tool_result)]

\* the loop of BaseAgent._process_tool_calls from the directive of index i:
\* acc holds results, steps and _tool_call_ids so far
RECURSIVE process_loop(_, _, _, _, _)

\* the rest of one iteration, given the outcome of _execute_tool
after_execute(tool_calls, envs, registry, i, acc, ids, call, executed) ==
    IF executed.kind = "raise"
    THEN [acc EXCEPT !.ids = ids, !.raised = executed.value,
                     !.calls = Append(@, call),
                     !.failed_at = i + 1]
    ELSE process_loop(tool_calls, envs, registry, i + 1,
            [results |-> Append(acc.results, executed.value),
             calls |-> Append(acc.calls, call),
             steps |-> RecordCall(acc.steps, call, executed.value),
             ids |-> ids,
             raised |-> NoException,
             failed_at |-> 0])

process_loop(tool_calls, envs, registry, i, acc) ==
    IF i >= Len(tool_calls) THEN acc
    ELSE
      LET tool_call == tool_calls[i + 1]
          parsed == json_loads(tool_call.arguments)
      IN  IF parsed.kind = "raise" /\ parsed.value.type # "JSONDecodeError"
          THEN [acc EXCEPT !.raised = parsed.value, !.failed_at = i + 1]
          ELSE
            LET arguments == IF parsed.kind = "raise" THEN PyDict(EmptyDict)
                             ELSE parsed.value
                call_id == CallId(tool_call, i)
                ids == (i :> call_id) @@ acc.ids
                call_record == ToolCall(tool_call.name, arguments, call_id)
            IN  after_execute(tool_calls, envs, registry, i, acc, ids,
                              call_record,
                              execute_tool(registry, tool_call.name,
                                           arguments, envs[i + 1]))

\* BaseAgent._process_tool_calls: results, the steps and _tool_call_ids it
\* leaves, the call records it built, and the exception it let escape with
\* the ordinal of the directive that raised it (0 if none)
process_tool_calls(tool_calls, envs, registry, steps_) ==
    process_loop(tool_calls, envs, registry, 0,
                 [results |-> <<>>, calls |-> <<>>, steps |-> steps_,
                  ids |-> EmptyDict, raised |-> NoException, failed_at |-> 0])

----------------------------------------------------------------------------
(* BaseAgent.run                                                           *)

\* BaseAgent._extract_thinking on the contents of the model
extract_thinking(content) ==
    IF content = "<thinking>plan</thinking>4" THEN "plan" ELSE None

\* helpers.format_tool_result (the outputs of the model are short texts)
format_tool_result(output) == IF output = None THEN "No result" ELSE output

\* the tool_calls metadata of the assistant message (run, lines 459-468)
tool_calls_data(tool_calls) ==
    [i \in 1..Len(tool_calls) |->
        [id |-> IF tool_calls[i].id = NoAttr THEN "" ELSE Str(tool_calls[i].id),
         type |-> "function",
         function |-> [name |-> tool_calls[i].name,
                       arguments |-> tool_calls[i].arguments]]]

\* the correlation id of the i-th tool message (run, lines 488-501)
ToolMessageCallId(tool_call, i, ids) ==
    IF i \in DOMAIN ids THEN ids[i]
    ELSE IF tool_call.id # NoAttr /\ Truthy(tool_call.id) THEN tool_call.id
    ELSE "call_" \o tool_call.name \o "_" \o ToString(i)

\* the loop appending one tool message per directive (run, lines 476-512)
RECURSIVE add_tool_messages(_, _, _, _, _)
add_tool_messages(msgs, tool_calls, tool_results, ids, i) ==
    IF i >= Len(tool_calls) THEN msgs
    ELSE
      LET tool_call == tool_calls[i + 1]
          res == tool_results[i + 1]
          result_text == IF Truthy(res.error_message)
                         THEN "Error: " \o res.error_message
                         ELSE format_tool_result(res.output)
          metadata == [tool_name |-> tool_call.name,
                       tool_call_id |-> ToolMessageCallId(tool_call, i, ids)]
      IN  add_tool_messages(
              add_tool_message(msgs, result_text, tool_call.name, metadata),
              tool_calls, tool_results, ids, i + 1)

\* BaseAgent._get_tools_for_api: one declaration per registered tool
get_tools_for_api(registry) ==
    {[type |-> "function", function |-> [name |-> tool]] : tool \in registry}

\* BaseAgent._call_llm and "response.choices[0]"
call_llm(response) ==
    CASE response.kind = "raise" ->
            Raise("APIConnectionError", response.text)
      [] response.kind = "no_choices" ->
            Raise("IndexError", "list index out of range")
      [] OTHER -> Return(response.message)

\* the body of one iteration of the loop of run (lines 410-533), from the
\* model request on: the exception that escapes it (or NoException) and the
\* fields it leaves
Iteration(response, envs, step_number) ==
    LET before == [exc |-> NoException, state |-> THINKING, steps |-> steps,
                   messages |-> messages, ids |-> tool_call_ids,
                   completed |-> FALSE, final_answer |-> ""]
        called == call_llm(response)
    IN  IF called.kind = "raise" THEN [before EXCEPT !.exc = called.value]
        ELSE
          LET message == called.value
              content == IF Truthy(message.content) THEN message.content ELSE ""
              thinking_text == IF Truthy(extract_thinking(content))
                               THEN extract_thinking(content) ELSE content
              made == AgentStep([step_number |-> step_number,
                                 thinking |-> thinking_text])
          IN  IF made.kind = "raise" THEN [before EXCEPT !.exc = made.value]
              ELSE IF message.tool_calls # <<>>
              THEN
                LET p == process_tool_calls(message.tool_calls, envs, tools,
                                            Append(steps, made.value))
                IN  IF p.raised # NoException
                    THEN [before EXCEPT !.exc = p.raised, !.state = EXECUTING,
                                        !.steps = p.steps, !.ids = p.ids]
                    ELSE [before EXCEPT
                            !.state = EXECUTING,
                            !.steps = p.steps,
                            !.ids = p.ids,
                            !.messages =
                                add_tool_messages(
                                    add_assistant_message(messages, content,
                                        [tool_calls |->
                                            tool_calls_data(message.tool_calls)]),
                                    message.tool_calls, p.results, p.ids, 0)]
              ELSE [before EXCEPT
                      !.state = COMPLETED,
                      !.steps = Append(steps,
                                  [made.value EXCEPT !.response = content]),
                      !.messages = add_assistant_message(messages, content,
                                                         EmptyDict),
                      !.completed = TRUE,
                      !.final_answer = content]

RunCatchesBackendOnly(exc) == exc.type = "APIConnectionError"

\* "except Exception" at the loop boundary of run (line 551)
RunCatches(exc) == exc.type \in ExceptionSubclasses

ErrorResponseWithoutText(exc, steps_, iterations) ==
    AgentResponse(FALSE, "Error during execution", steps_, iterations, None)

\* an exception handler that reports the iterations completed before the one
\* that failed
ErrorResponseUncounted(exc, steps_, iterations) ==
    AgentResponse(FALSE, "Error during execution: " \o exc.text, steps_,
                  iterations - 1, exc.text)

\* the AgentResponse of the exception handler (lines 557-565)
ErrorResponse(exc, steps_, iterations) ==
    AgentResponse(FALSE, "Error during execution: " \o exc.text, steps_,
                  iterations, exc.text)

\* the AgentResponse of the exhausted loop (lines 541-549)
MaxIterationsResponse(steps_, iterations) ==
    AgentResponse(FALSE, "Reached max iterations, task not completed.", steps_,
                  iterations, "Max iterations reached")

\* the AgentResponse of a completed run (lines 526-533)
SuccessResponse(final_answer, steps_, iterations) ==
    AgentResponse(TRUE, final_answer, steps_, iterations, None)

\* "messages = self.memory.get_openai_messages()": what the next model
\* request carries
request_messages == get_openai_messages(system_message, messages)

\* the values one iteration assigns to self.state, in order: Thinking before
\* the request (line 422), Executing or Completed in the branches (lines
\* 450 and 515), Error in the handler (line 552)
iteration_states(it) ==
    <<THINKING>>
    \o (IF it.state # THINKING THEN <<it.state>> ELSE <<>>)
    \o (IF it.exc # NoException /\ RunCatches(it.exc) THEN <<ERROR>> ELSE <<>>)

run_start_keeps_state(user_input) ==
    /\ ~running
    /\ current_step' = 0
    /\ steps' = <<>>
    /\ messages' = add_user_message(messages, user_input)
    /\ running' = TRUE
    /\ responses' = <<>>
    /\ result' = NoResponse
    /\ held_response' = Rebound(held_response, steps)
    /\ raised' = NoException
    /\ UNCHANGED <<state, tools, tool_call_ids, system_message, files,
                   dispatched, agent2>>

\* run(user_input) up to the loop (lines 393-405)
run_start(user_input) ==
    /\ ~running
    /\ state' = THINKING
    /\ current_step' = 0
    /\ steps' = <<>>
    /\ messages' = add_user_message(messages, user_input)
    /\ running' = TRUE
    /\ responses' = <<>>
    /\ result' = NoResponse
    /\ held_response' = Rebound(held_response, steps)
    /\ raised' = NoException
    /\ UNCHANGED <<tools, tool_call_ids, system_message, files, dispatched, agent2>>

\* one evaluation of the loop condition of run and what follows it: the
\* iteration with the backend's response, or the exit of the exhausted loop
run_loop(response, envs) ==
    /\ running
    /\ IF current_step < MaxIterations
       THEN LET it == Iteration(response, envs, current_step + 1)
            IN  /\ current_step' = current_step + 1
                /\ responses' = Append(responses, response)
                /\ steps' = it.steps
                /\ messages' = it.messages
                /\ tool_call_ids' = it.ids
                /\ IF it.exc # NoException
                   THEN IF RunCatches(it.exc)
                        THEN /\ state' = ERROR
                             /\ result' = ErrorResponse(it.exc, it.steps,
                                                        current_step + 1)
                             /\ held_response' = hold(result')
                             /\ raised' = NoException
                             /\ running' = FALSE
                        ELSE /\ state' = it.state
                             /\ result' = NoResponse
                             /\ raised' = it.exc
                             /\ running' = FALSE
                             /\ UNCHANGED held_response
                   ELSE IF it.completed
                   THEN /\ state' = COMPLETED
                        /\ result' = SuccessResponse(it.final_answer, it.steps,
                                                     current_step + 1)
                        /\ held_response' = hold(result')
                        /\ raised' = NoException
                        /\ running' = FALSE
                   ELSE /\ state' = it.state
                        /\ UNCHANGED <<result, raised, running, held_response>>
       ELSE /\ state' = STOPPED
            /\ result' = MaxIterationsResponse(steps, current_step)
            /\ held_response' = hold(result')
            /\ running' = FALSE
            /\ UNCHANGED <<current_step, steps, messages, tool_call_ids,
                           responses, raised>>
    /\ UNCHANGED <<tools, system_message, files, dispatched, agent2>>

----------------------------------------------------------------------------
(* The other operations of BaseAgent and ConversationMemory                *)

\* a reset that empties the list BaseAgent.steps is bound to and zeroes the
\* counters of the response object instead of leaving it to the caller
reset_reusing_response ==
    /\ ~running
    /\ state' = IDLE
    /\ current_step' = 0
    /\ steps' = <<>>
    /\ messages' = clear_messages(messages, TRUE)
    /\ system_message' = clear_system(system_message, TRUE)
    /\ held_response' = [held_response EXCEPT !.response.total_iterations = 0]
    /\ UNCHANGED <<tools, tool_call_ids, files, running, responses, result,
                   raised, dispatched, agent2>>

\* BaseAgent.reset
reset ==
    /\ ~running
    /\ state' = IDLE
    /\ current_step' = 0
    /\ steps' = <<>>
    /\ messages' = clear_messages(messages, TRUE)
    /\ system_message' = clear_system(system_message, TRUE)
    /\ held_response' = Rebound(held_response, steps)
    /\ UNCHANGED <<tools, tool_call_ids, files, running, responses, result,
                   raised, dispatched, agent2>>

\* ConversationMemory.clear(keep_system) called on agent.memory
clear(keep_system) ==
    /\ ~running
    /\ messages' = clear_messages(messages, keep_system)
    /\ system_message' = clear_system(system_message, keep_system)
    /\ UNCHANGED <<agent_vars, tools, tool_call_ids, files, run_vars, dispatched, agent2>>

\* BaseAgent.add_tool
add_tool(tool) ==
    /\ ~running
    /\ tools' = tools \cup {tool}
    /\ system_message' = set_system_message(get_system_prompt(tools'))
    /\ UNCHANGED <<agent_vars, tool_call_ids, messages, files, run_vars,
                   dispatched, agent2>>

remove_tool_keeps_prompt(tool_name) ==
    /\ ~running
    /\ tools' = tools \ {tool_name}
    /\ UNCHANGED <<agent_vars, tool_call_ids, messages, system_message, files,
                   run_vars, dispatched, agent2>>

\* BaseAgent.remove_tool: nothing changes for a name that is not registered
remove_tool(tool_name) ==
    /\ ~running
    /\ IF tool_name \in tools
       THEN /\ tools' = tools \ {tool_name}
            /\ system_message' = set_system_message(get_system_prompt(tools'))
       ELSE UNCHANGED <<tools, system_message>>
    /\ UNCHANGED <<agent_vars, tool_call_ids, messages, files, run_vars,
                   dispatched, agent2>>

add_file_merging(fs, path, content, abstract, metadata) ==
    IF path \in DOMAIN fs
    THEN [fs EXCEPT ![path] =
            FileContext(path, content, abstract, metadata @@ @.metadata)]
    ELSE (path :> FileContext(path, content, abstract, metadata)) @@ fs

update_file_creating(fs, path, content, abstract, metadata) ==
    IF path \notin DOMAIN fs
    THEN (path :> FileContext(path, content, abstract, metadata)) @@ fs
    ELSE [fs EXCEPT ![path] =
            [@ EXCEPT !.content = IF content # None THEN content ELSE @,
                      !.abstract = IF abstract # None THEN abstract ELSE @,
                      !.metadata = metadata @@ @]]

\* ConversationMemory.add_file, update_file, remove_file: the table afterwards
add_file(fs, path, content, abstract, metadata) ==
    (path :> FileContext(path, content, abstract, metadata)) @@ fs

update_file(fs, path, content, abstract, metadata) ==
    IF path \notin DOMAIN fs THEN fs
    ELSE [fs EXCEPT ![path] =
            [@ EXCEPT !.content = IF content # None THEN content ELSE @,
                      !.abstract = IF abstract # None THEN abstract ELSE @,
                      !.metadata = metadata @@ @]]

remove_file(fs, path) == [p \in DOMAIN fs \ {path} |-> fs[p]]

\* what update_file and remove_file return: the entry found (None if the
\* path is absent), whether an entry was deleted
update_file_returns(fs, path, content, abstract, metadata) ==
    IF path \notin DOMAIN fs THEN NoFile
    ELSE update_file(fs, path, content, abstract, metadata)[path]

remove_file_returns(fs, path) == path \in DOMAIN fs

\* ConversationMemory.get_file: self.files.get(path)
get_file(fs, path) == IF path \in DOMAIN fs THEN fs[path] ELSE NoFile

\* BaseAgent.add_file_to_context
add_file_to_context(path, content, abstract, metadata) ==
    /\ ~running
    /\ files' = add_file(files, path, content, abstract, metadata)
    /\ UNCHANGED <<agent_vars, tools, tool_call_ids, messages, system_message,
                   run_vars, dispatched, agent2>>

\* BaseAgent.update_file_in_context
update_file_in_context(path, content, abstract, metadata) ==
    /\ ~running
    /\ files' = update_file(files, path, content, abstract, metadata)
    /\ UNCHANGED <<agent_vars, tools, tool_call_ids, messages, system_message,
                   run_vars, dispatched, agent2>>

\* BaseAgent.remove_file_from_context
remove_file_from_context(path) ==
    /\ ~running
    /\ files' = remove_file(files, path)
    /\ UNCHANGED <<agent_vars, tools, tool_call_ids, messages, system_message,
                   run_vars, dispatched, agent2>>

\* a call of BaseAgent._execute_tool by the caller.  The outcome of a direct
\* dispatch call depends on the registry and the step list only, which such
\* calls leave as they were: a behaviour makes one of them
call_execute_tool(tool_name, arguments, env) ==
    LET outcome == execute_tool(tools, tool_name, arguments, env)
    IN  /\ ~running
        /\ dispatched.op = None
        /\ dispatched' = [op |-> "_execute_tool", tool_name |-> tool_name,
                          arguments |-> arguments, env |-> env,
                          outcome |-> outcome]
        /\ raised' = IF outcome.kind = "raise" THEN outcome.value
                     ELSE NoException
        /\ UNCHANGED <<agent_vars, tools, tool_call_ids, memory_vars, running,
                       responses, result, held_response, agent2>>

\* a call of BaseAgent._process_tool_calls by the caller
call_process_tool_calls(tool_calls, envs) ==
    LET p == process_tool_calls(tool_calls, envs, tools, steps)
    IN  /\ ~running
        /\ dispatched.op = None
        /\ dispatched' = [op |-> "_process_tool_calls",
                          tool_calls |-> tool_calls, envs |-> envs,
                          outcome |-> p]
        /\ tool_call_ids' = p.ids
        /\ steps' = p.steps
        /\ raised' = p.raised
        /\ UNCHANGED <<state, current_step, tools, memory_vars, running,
                       responses, result, held_response, agent2>>

\* direct calls of the ConversationMemory methods on agent.memory
call_set_system_message(content) ==
    /\ ~running
    /\ system_message' = set_system_message(content)
    /\ UNCHANGED <<agent_vars, tools, tool_call_ids, messages, files, run_vars,
                   dispatched, agent2>>

call_add_user_message(content) ==
    /\ ~running
    /\ messages' = add_user_message(messages, content)
    /\ UNCHANGED <<agent_vars, tools, tool_call_ids, system_message, files,
                   run_vars, dispatched, agent2>>

call_add_assistant_message(content, metadata) ==
    /\ ~running
    /\ messages' = add_assistant_message(messages, content, metadata)
    /\ UNCHANGED <<agent_vars, tools, tool_call_ids, system_message, files,
                   run_vars, dispatched, agent2>>

call_add_tool_message(content, tool_name, metadata) ==
    /\ ~running
    /\ messages' = add_tool_message(messages, content, tool_name, metadata)
    /\ UNCHANGED <<agent_vars, tools, tool_call_ids, system_message, files,
                   run_vars, dispatched, agent2>>

----------------------------------------------------------------------------
(* BaseAgent._process_tool_calls, one tool execution at a time             *)
(* dispatched holds the call in progress: the directives, the index i of   *)
(* the loop, the directives whose _execute_tool is in progress, and the    *)
(* record of what began and ended (events) and of the ids given (given).   *)

LoopOps == {"loop", "returned", "raised"}

\* the calls of _process_tool_calls begun so far
CallsMade == IF dispatched.op \in LoopOps THEN dispatched.call ELSE 0

begin_execute_tool_parallel ==
    /\ dispatched.op = "loop"
    /\ dispatched.i + Cardinality(dispatched.executing)
          < Len(dispatched.tool_calls)
    /\ LET i == dispatched.i + Cardinality(dispatched.executing)
           tool_call == dispatched.tool_calls[i + 1]
       IN  /\ dispatched' =
                [dispatched EXCEPT
                   !.executing = @ \cup {i + 1},
                   !.events = Append(@, [kind |-> "begin",
                                         call |-> dispatched.call,
                                         index |-> i + 1])]
           /\ tool_call_ids' = (i :> CallId(tool_call, i)) @@ tool_call_ids
    /\ UNCHANGED <<agent_vars, tools, memory_vars, run_vars, agent2>>

\* the entry of _process_tool_calls: "results = []", "_tool_call_ids = {}"
start_process_tool_calls(tool_calls, envs) ==
    /\ ~running
    /\ dispatched.op \in {None, "returned", "raised"}
    /\ CallsMade < MaxCalls
    /\ dispatched' =
          [op |-> IF tool_calls = <<>> THEN "returned" ELSE "loop",
           call |-> CallsMade + 1,
           tool_calls |-> tool_calls, envs |-> envs, i |-> 0,
           executing |-> {}, results |-> <<>>, calls |-> <<>>,
           events |-> IF CallsMade = 0 THEN <<>> ELSE dispatched.events,
           given |-> IF CallsMade = 0 THEN <<>> ELSE dispatched.given]
    /\ tool_call_ids' = EmptyDict
    /\ raised' = NoException
    /\ UNCHANGED <<agent_vars, tools, memory_vars, running, responses, result,
                   held_response,
                   agent2>>

\* the loop body up to the call of _execute_tool (lines 349-371): the
\* payload is parsed, the id chosen and stored, and the execution begins;
\* an exception of json.loads other than JSONDecodeError escapes
begin_execute_tool ==
    /\ dispatched.op = "loop"
    /\ dispatched.executing = {}
    /\ dispatched.i < Len(dispatched.tool_calls)
    /\ LET i == dispatched.i
           tool_call == dispatched.tool_calls[i + 1]
           parsed == json_loads(tool_call.arguments)
       IN  IF parsed.kind = "raise" /\ parsed.value.type # "JSONDecodeError"
           THEN /\ dispatched' = [dispatched EXCEPT !.op = "raised"]
                /\ raised' = parsed.value
                /\ UNCHANGED tool_call_ids
           ELSE /\ dispatched' =
                     [dispatched EXCEPT
                        !.executing = {i + 1},
                        !.events = Append(@, [kind |-> "begin",
                                              call |-> dispatched.call,
                                              index |-> i + 1]),
                        !.given = Append(@, [call |-> dispatched.call,
                                             position |-> i,
                                             directive |-> tool_call,
                                             env |-> dispatched.envs[i + 1],
                                             call_id |-> CallId(tool_call, i)])]
                /\ tool_call_ids' = (i :> CallId(tool_call, i)) @@ tool_call_ids
                /\ UNCHANGED raised
    /\ UNCHANGED <<agent_vars, tools, memory_vars, running, responses, result,
                   held_response,
                   agent2>>

\* the return of _execute_tool and the rest of the loop body (lines
\* 371-376), then the loop condition: the next directive, or the return
end_execute_tool ==
    /\ dispatched.op = "loop"
    /\ \E k \in dispatched.executing :
         LET acc == process_loop(
                        SubSeq(dispatched.tool_calls, 1, k), dispatched.envs,
                        tools, k - 1,
                        [results |-> dispatched.results,
                         calls |-> dispatched.calls, steps |-> steps,
                         ids |-> tool_call_ids, raised |-> NoException,
                         failed_at |-> 0])
         IN  /\ dispatched' =
                   [dispatched EXCEPT
                      !.op = IF acc.raised # NoException THEN "raised"
                             ELSE IF k = Len(dispatched.tool_calls)
                             THEN "returned" ELSE "loop",
                      !.i = k,
                      !.executing = @ \ {k},
                      !.results = acc.results,
                      !.calls = acc.calls,
                      !.events = Append(@, [kind |-> "end",
                                            call |-> dispatched.call,
                                            index |-> k])]
             /\ steps' = acc.steps
             /\ tool_call_ids' = acc.ids
             /\ raised' = acc.raised
    /\ UNCHANGED <<state, current_step, tools, memory_vars, running, responses,
                   result, held_response, agent2>>

----------------------------------------------------------------------------
(* A second BaseAgent constructed in the same process                      *)

\* the module-level _memory of core/memory.py and a memory made by a caller
GlobalMemory == "_memory"
ExplicitMemory == "memory_b"

\* get_memory(): the process-wide instance, created on first use
get_memory == GlobalMemory

\* "self.memory = memory or get_memory()"
agent_memory(memory) == IF memory # None THEN memory ELSE get_memory

\* the memory of the first agent, constructed without a memory argument
Agent1Memory == agent_memory(None)

\* a ConversationMemory as constructed
NewMemory ==
    [messages |-> <<>>, system_message |-> NoMessage, files |-> EmptyDict]

\* the memory object the second agent holds
Memory2 ==
    IF agent2.memory = Agent1Memory
    THEN [messages |-> messages, system_message |-> system_message,
          files |-> files]
    ELSE agent2.own

\* BaseAgent.__init__ of the second agent
construct_agent2(tool_names, memory) ==
    /\ ~running
    /\ ~agent2.constructed
    /\ LET mem == agent_memory(memory)
           shared == mem = Agent1Memory
           held == IF shared
                   THEN [messages |-> messages,
                         system_message |-> system_message, files |-> files]
                   ELSE NewMemory
           sys == set_system_message(
                      inject_workspace_to_prompt(
                          get_system_prompt(tool_names),
                          held.messages, held.files))
       IN  /\ agent2' = [constructed |-> TRUE, memory |-> mem,
                         tools |-> tool_names, state |-> IDLE,
                         current_step |-> 0, steps |-> <<>>,
                         own |-> IF shared THEN NewMemory
                                 ELSE [NewMemory EXCEPT !.system_message = sys]]
           /\ system_message' = IF shared THEN sys ELSE system_message
    /\ UNCHANGED <<agent_vars, tools, tool_call_ids, messages, files,
                   run_vars, dispatched>>

\* BaseAgent.add_tool of the second agent
agent2_add_tool(tool) ==
    /\ ~running
    /\ agent2.constructed
    /\ LET registry == agent2.tools \cup {tool}
           sys == set_system_message(get_system_prompt(registry))
           shared == agent2.memory = Agent1Memory
       IN  /\ agent2' = IF shared THEN [agent2 EXCEPT !.tools = registry]
                         ELSE [agent2 EXCEPT !.tools = registry,
                                             !.own.system_message = sys]
           /\ system_message' = IF shared THEN sys ELSE system_message
    /\ UNCHANGED <<agent_vars, tools, tool_call_ids, messages, files,
                   run_vars, dispatched>>

\* BaseAgent.reset of the second agent
agent2_reset ==
    /\ ~running
    /\ agent2.constructed
    /\ LET shared == agent2.memory = Agent1Memory
           reset2 == [agent2 EXCEPT !.state = IDLE, !.current_step = 0,
                                    !.steps = <<>>]
       IN  /\ agent2' =
                IF shared THEN reset2
                ELSE [reset2 EXCEPT
                        !.own.messages = clear_messages(@, TRUE),
                        !.own.system_message = clear_system(@, TRUE)]
           /\ messages' = IF shared THEN clear_messages(messages, TRUE)
                           ELSE messages
           /\ system_message' = IF shared
                                 THEN clear_system(system_message, TRUE)
                                 ELSE system_message
    /\ UNCHANGED <<agent_vars, tools, tool_call_ids, files, run_vars,
                   dispatched>>

\* BaseAgent.add_file_to_context of the second agent
agent2_add_file_to_context(path, content, abstract, metadata) ==
    /\ ~running
    /\ agent2.constructed
    /\ LET shared == agent2.memory = Agent1Memory
       IN  /\ agent2' =
                IF shared THEN agent2
                ELSE [agent2 EXCEPT !.own.files =
                        add_file(@, path, content, abstract, metadata)]
           /\ files' = IF shared
                        THEN add_file(files, path, content, abstract, metadata)
                        ELSE files
    /\ UNCHANGED <<agent_vars, tools, tool_call_ids, messages,
                   system_message, run_vars, dispatched>>

----------------------------------------------------------------------------
(* Inputs                                                                  *)

UserInputs == {"what is 2+2"}
Contents == {None, "4"}
Paths == {"a.py", "notes.md"}
UnknownTool == "no_such_tool"

\* arguments of the file-context methods
FilePaths == Paths \cup {"missing.txt"}
FileContents == {None, "", "x = 1", "print(1)", "print(2)"}
Abstracts == {"", "script"}
Metadatas ==
    {EmptyDict, [reviewed |-> FALSE], [reviewed |-> TRUE, owner |-> "me"]}

\* the tool-call directives a backend response carries
Directives(names, payloads, ids) ==
    [name : names, arguments : payloads, id : ids]

\* the lists of at most MaxDirectives directives
DirectiveLists(directives) ==
    UNION {[1..n -> directives] : n \in 0..MaxDirectives}

\* the responses of the backend in a run
BackendDirectives ==
    Directives({"calculator", UnknownTool},
               {"{\"expression\": \"123*456\"}"},
               {"call_1", None})

Responses ==
    {[kind |-> "raise", text |-> "Connection error.",
      message |-> [content |-> None, tool_calls |-> <<>>]],
     [kind |-> "no_choices", text |-> "",
      message |-> [content |-> None, tool_calls |-> <<>>]]}
    \cup {[kind |-> "message", text |-> "",
           message |-> [content |-> c, tool_calls |-> tc]] :
            c \in Contents, tc \in DirectiveLists(BackendDirectives)}

\* the directives and argument maps of direct dispatch calls
DispatchDirectives ==
    Directives({"calculator", UnknownTool},
               {"{\"expression\": \"123*456\"}", "{bad json", None, "[1, 2]"},
               {"call_1", None, ""})

ArgumentMaps ==
    {PyDict(EmptyDict),
     PyDict([expression |-> "123*456"]),
     PyDict([code |-> "while True: pass"]),
     PyDict([command |-> "cat /dev/zero", timeout |-> 1]),
     PyDict([command |-> "sleep 60"]),
     PyDict([self |-> 1])}

\* the directives of the assistant messages appended directly
MemoryDirectives ==
    Directives({"calculator"}, {"{\"expression\": \"123*456\"}"},
               {"call_1", "call_2"})

\* the path texts given to the file tools
PathArgs ==
    {PathArg(FALSE, <<"workspace", "a.txt">>),
     PathArg(FALSE, <<"workspace", "new.txt">>),
     PathArg(FALSE, <<"workspace">>),
     PathArg(FALSE, <<"outputs", "r.txt">>),
     PathArg(FALSE, <<"workspace", ".", "a.txt">>),
     PathArg(FALSE, <<"workspace", "..", "workspace", "a.txt">>),
     PathArg(FALSE, <<"..", "home", "workspace", "a.txt">>),
     PathArg(TRUE, <<"home", "workspace", "a.txt">>),
     PathArg(TRUE, <<"etc", "passwd">>),
     PathArg(FALSE, <<"workspace", "..", "..", "etc", "passwd">>),
     PathArg(FALSE, <<"a.txt">>),
     PathArg(FALSE, <<"workspace_evil", "x.txt">>),
     PathArg(TRUE, <<"home", "workspace_evil", "x.txt">>),
     PathArg(FALSE, <<"workspace", "link">>)}

\* the keyword arguments of a call of a file tool
FileArguments(tool) ==
    CASE tool = "read_file" -> {[file_path |-> p] : p \in PathArgs}
      [] tool = "write_file" ->
            {[file_path |-> p, content |-> "data", append |-> a] :
                p \in PathArgs, a \in BOOLEAN}
      [] tool = "list_directory" -> {[directory_path |-> p] : p \in PathArgs}
      [] tool = "file" ->
            {[operation |-> o, path |-> p] :
                o \in {"read", "list", "delete"}, p \in PathArgs}
            \cup {[operation |-> "write", path |-> p, content |-> c] :
                    p \in PathArgs, c \in {None, "data"}}

\* the directives of the stepwise calls of _process_tool_calls
LoopDirectives ==
    {[name |-> "calculator", arguments |-> "{\"expression\": \"123*456\"}",
      id |-> None],
     [name |-> "calculator", arguments |-> "[1, 2]", id |-> "call_1"],
     [name |-> UnknownTool, arguments |-> "{bad json", id |-> None]}

\* self.steps as the caller of _process_tool_calls left it: empty, or
\* holding the step of the iteration (run appends it at line 442)
CallerSteps ==
    {<<>>, <<AgentStep([step_number |-> 1, thought |-> ""]).value>>}

\* one environment outcome per directive of a list
EnvLists(n, envs) == [1..n -> envs]

----------------------------------------------------------------------------
(* Specifications                                                          *)

\* BaseAgent.__init__(tools=...) with a fresh ConversationMemory and the
\* default prompt
InitWithSteps(tool_names, steps_) ==
    /\ tools = tool_names
    /\ messages = <<>>
    /\ files = EmptyDict
    /\ system_message =
          set_system_message(
              inject_workspace_to_prompt(get_system_prompt(tool_names),
                                         <<>>, EmptyDict))
    /\ state = IDLE
    /\ current_step = 0
    /\ steps = steps_
    /\ tool_call_ids = EmptyDict
    /\ running = FALSE
    /\ responses = <<>>
    /\ result = NoResponse
    /\ raised = NoException
    /\ held_response = NothingHeld
    /\ dispatched = [op |-> None]
    /\ agent2 = NoAgent

InitWith(tool_names) == InitWithSteps(tool_names, <<>>)

Init == InitWith({"calculator", "execute_code"})

\* the caller-facing operations of one agent
Next ==
    \/ \E user_input \in UserInputs : run_start(user_input)
    \/ \E response \in Responses :
         \E envs \in EnvLists(Len(response.message.tool_calls), Envs) :
            run_loop(response, envs)
    \/ reset
    \/ \E keep_system \in BOOLEAN : clear(keep_system)
    \/ \E tool \in {"calculator", "shell"} : add_tool(tool)
    \/ \E tool_name \in {"calculator", "shell", UnknownTool} :
            remove_tool(tool_name)
    \/ \E path \in Paths, content \in {None, "print(1)"} :
            add_file_to_context(path, content, "script", EmptyDict)
    \/ \E path \in Paths :
            update_file_in_context(path, "print(2)", None, [reviewed |-> TRUE])
    \/ \E path \in Paths : remove_file_from_context(path)

Spec == Init /\ [][Next]_vars

\* an agent constructed with any tool list, and one direct dispatch call
InitDispatch == \E T \in (SUBSET AllTools) \ {{}} : InitWith(T)

NextDispatch ==
    \/ \E tool_name \in AllTools \cup {UnknownTool},
          arguments \in ArgumentMaps, env \in Envs :
            call_execute_tool(tool_name, arguments, env)
    \/ \E tool_calls \in DirectiveLists(DispatchDirectives) :
         \E envs \in EnvLists(Len(tool_calls), {"ok", "fail"}) :
            call_process_tool_calls(tool_calls, envs)

SpecDispatch == InitDispatch /\ [][NextDispatch]_vars

\* direct calls of _process_tool_calls followed step by step, and runs
\* between them
InitLoop ==
    \E steps_ \in CallerSteps :
        InitWithSteps({"calculator", "execute_code"}, steps_)

NextLoop ==
    \/ \E tool_calls \in DirectiveLists(LoopDirectives) :
         \E envs \in EnvLists(Len(tool_calls), {"ok"}) :
            start_process_tool_calls(tool_calls, envs)
    \/ begin_execute_tool
    \/ end_execute_tool
    \/ \E user_input \in UserInputs :
            dispatched.op # "loop" /\ run_start(user_input)
    \/ \E response \in {r \in Responses : r.message.tool_calls = <<>>} :
            run_loop(response, <<>>)

SpecLoop == InitLoop /\ [][NextLoop]_vars

\* an agent constructed with the file tools, and one dispatch of one of them
InitFiles == InitWith(FileTools)

NextFiles ==
    \E tool_name \in FileTools :
        \E arguments \in FileArguments(tool_name) :
            call_execute_tool(tool_name, PyDict(arguments), "ok")

SpecFiles == InitFiles /\ [][NextFiles]_vars

\* two agents of one process: the operations of the first, the construction
\* of the second and the operations of the second
NextAgents ==
    \/ \E tool_names \in {{"calculator"}, {"calculator", "execute_code"}} :
         \E memory \in {None, ExplicitMemory} :
            construct_agent2(tool_names, memory)
    \/ \E user_input \in UserInputs : run_start(user_input)
    \/ \E response \in Responses :
         \E envs \in EnvLists(Len(response.message.tool_calls), Envs) :
            run_loop(response, envs)
    \/ reset
    \/ add_tool("shell")
    \/ add_file_to_context("a.py", "print(1)", "script", EmptyDict)
    \/ agent2_add_tool("shell")
    \/ agent2_reset
    \/ agent2_add_file_to_context("notes.md", "print(2)", "", EmptyDict)

SpecAgents == Init /\ [][NextAgents]_vars

\* the ids the retained assistant messages requested
RequestedIds(msgs) ==
    UNION {{msgs[j].metadata["tool_calls"][k].id :
                k \in 1..Len(msgs[j].metadata["tool_calls"])} :
           j \in {i \in 1..Len(msgs) :
                    /\ msgs[i].role = "assistant"
                    /\ "tool_calls" \in DOMAIN msgs[i].metadata}}

\* the memory of an agent driven through its own methods: the system prompt
\* is replaced, messages of every role are appended (a tool message answers
\* a call that a retained assistant message requested) and the log is cleared
NextMemory ==
    \/ \E T \in SUBSET {"calculator"} :
            call_set_system_message(get_system_prompt(T))
    \/ \E content \in UserInputs : call_add_user_message(content)
    \/ \E tool_calls \in DirectiveLists(MemoryDirectives) :
            call_add_assistant_message(
                "",
                IF tool_calls = <<>> THEN EmptyDict
                ELSE [tool_calls |-> tool_calls_data(tool_calls)])
    \/ \E id \in RequestedIds(messages) :
            call_add_tool_message("56088", "calculator", [tool_call_id |-> id])
    \/ \E keep_system \in BOOLEAN : clear(keep_system)

SpecMemory == Init /\ [][NextMemory]_vars

----------------------------------------------------------------------------
(* Properties                                                              *)

HasToolCalls(response) ==
    response.kind = "message" /\ response.message.tool_calls # <<>>

\* a run has ended and the agent was not reset since
RunOver == ~running /\ state # IDLE

LastResponse == responses[Len(responses)]

\* the free text of a response ("message.content or ''")
FreeText(response) ==
    IF Truthy(response.message.content) THEN response.message.content ELSE ""

\* the retained tool messages, in order
ToolMessages ==
    SelectSeq(messages, LAMBDA m : m.role = "tool")

\* C1: after an iteration whose response carried N >= 1 directives, the last
\* N messages of Conversation Memory are the tool messages of the directives
\* in order, the i-th with the i-th directive's id or its fallback id, and
\* the assistant message before them records the same ids in the same order
\* (as far as the retention cap keeps them).
C1_ToolMessagesCorrelated ==
    (responses # <<>> /\ HasToolCalls(LastResponse) /\ state # IDLE) =>
        LET tc == LastResponse.message.tool_calls
            N == Len(tc)
            L == Len(messages)
        IN  /\ L >= (IF N + 1 <= MaxEntries THEN N + 1 ELSE MaxEntries)
            /\ \A i \in 1..N :
                 (L - N + i >= 1) =>
                    /\ messages[L - N + i].role = "tool"
                    /\ "tool_call_id" \in DOMAIN messages[L - N + i].metadata
                    /\ messages[L - N + i].metadata["tool_call_id"]
                          = CallId(tc[i], i - 1)
            /\ (L - N >= 1) =>
                    /\ messages[L - N].role = "assistant"
                    /\ "tool_calls" \in DOMAIN messages[L - N].metadata
                    /\ Len(messages[L - N].metadata["tool_calls"]) = N
                    /\ \A i \in 1..N :
                         messages[L - N].metadata["tool_calls"][i].id
                            = CallId(tc[i], i - 1)

\* C2: a run whose first n-1 responses request tools and whose n-th response
\* carries no directive returns success, total_iterations = n, n steps
\* numbered 1..n, and the n-th response's free text as final_answer.
C2_CompletesOnAnswer ==
    (RunOver /\ responses # <<>> /\ LastResponse.kind = "message"
       /\ ~HasToolCalls(LastResponse)
       /\ \A k \in 1..(Len(responses) - 1) : HasToolCalls(responses[k])) =>
        /\ result.success = TRUE
        /\ result.total_iterations = Len(responses)
        /\ Len(result.steps) = Len(responses)
        /\ \A k \in 1..Len(result.steps) : result.steps[k].step_number = k
        /\ result.final_answer = FreeText(LastResponse)

\* C3: with a backend that requests a tool call in every response, a run
\* ends after exactly MaxIterations model requests in state Stopped, with
\* success = false, total_iterations = MaxIterations, the error message
\* "Max iterations reached" and all MaxIterations steps.
C3_StopsAtMaxIterations ==
    (RunOver /\ \A k \in 1..Len(responses) : HasToolCalls(responses[k])) =>
        /\ Len(responses) = MaxIterations
        /\ state = STOPPED
        /\ result.success = FALSE
        /\ result.total_iterations = MaxIterations
        /\ result.error_message = "Max iterations reached"
        /\ Len(result.steps) = MaxIterations

\* C4: whatever the backend and the tools do, a run that ends has returned
\* an AgentResponse and has let no exception escape to the caller.
C4_RunAlwaysReturns ==
    RunOver =>
        /\ raised = NoException
        /\ result.total_iterations >= 0
        /\ state \in {COMPLETED, STOPPED, ERROR}

C4_Witness ==
    /\ RunOver
    /\ LastResponse.kind = "message"
    /\ state = ERROR
    /\ result.success = FALSE
    /\ result.error_message =
         "AgentStep.__init__() got an unexpected keyword argument 'thinking'"

C6_UnknownToolFedBack ==
    (responses # <<>> /\ HasToolCalls(LastResponse) /\ state # IDLE
       /\ \E i \in 1..Len(LastResponse.message.tool_calls) :
             LastResponse.message.tool_calls[i].name \notin tools) =>
        /\ state # ERROR
        /\ running
        /\ \E j \in 1..Len(messages) :
             /\ messages[j].role = "tool"
             /\ messages[j].content = "Error: Unknown tool: " \o UnknownTool

\* whether a payload fails to decode to a key-value map
NotAMap(payload) ==
    \/ json_loads(payload).kind = "raise"
    \/ json_loads(payload).value.type # "dict"

\* C7: a directive whose argument payload does not decode to a key-value map
\* is dispatched with an empty argument map, and no exception escapes
\* _process_tool_calls at that directive.
C7_BadPayloadDispatchedEmpty ==
    (dispatched.op = "_process_tool_calls") =>
        LET p == dispatched.outcome
        IN  \A i \in 1..Len(dispatched.tool_calls) :
                (NotAMap(dispatched.tool_calls[i].arguments)
                   /\ (p.failed_at = 0 \/ p.failed_at >= i)) =>
                    /\ p.failed_at # i
                    /\ p.calls[i].arguments = PyDict(EmptyDict)

\* C8: dispatching a registered tool with any argument map returns a
\* ToolResult and raises nothing: timeout for a timeout signal of the tool,
\* error with the exception text for any other failure, success with the
\* returned value otherwise.
C8_DispatchNeverRaises ==
    (dispatched.op = "_execute_tool" /\ dispatched.tool_name \in tools) =>
        LET r == tool_run(dispatched.tool_name, dispatched.arguments.val,
                          dispatched.env)
            out == dispatched.outcome
        IN  /\ out.kind = "return"
            /\ raised = NoException
            /\ (r.kind = "return") =>
                  out.value.status = SUCCESS /\ out.value.output = r.value
            /\ (r.kind = "raise" /\ r.value.type = "TimeoutError") =>
                  out.value.status = TIMEOUT
            /\ (r.kind = "raise" /\ r.value.type # "TimeoutError") =>
                  /\ out.value.status = TOOL_ERROR
                  /\ out.value.error_message
                        = "Tool execution error: " \o r.value.text

\* C9: when the subprocess of execute_code, shell or python outlives its
\* timeout, the ToolResult of the dispatch has status timeout.
C9_SubprocessTimeoutStatus ==
    (dispatched.op = "_execute_tool" /\ dispatched.tool_name \in tools
       /\ "self" \notin DOMAIN dispatched.arguments.val
       /\ SubprocessTimedOut(dispatched.tool_name, dispatched.arguments.val,
                             dispatched.env)) =>
        /\ dispatched.outcome.kind = "return"
        /\ dispatched.outcome.value.status = TIMEOUT

\* C10: reset() leaves exactly the system message that was set (and nothing
\* else) in get_messages(), the iteration counter 0, no steps, state Idle.
C10_ResetClears ==
    [][reset =>
         /\ get_messages(system_message', messages')
               = (IF system_message # NoMessage THEN <<system_message>>
                  ELSE <<>>)
         /\ current_step' = 0
         /\ steps' = <<>>
         /\ state' = IDLE]_vars

C10_Witness ==
    /\ state = IDLE
    /\ ~running
    /\ responses # <<>>
    /\ DOMAIN files # {}
    /\ "shell" \in tools
    /\ system_message # NoMessage
    /\ current_step = 0
    /\ get_messages(system_message, messages) = <<system_message>>

\* the positions of the system messages in an exported ordering
SystemPositions(exported) ==
    {i \in 1..Len(exported) : exported[i].role = "system"}

\* C11: get_messages and get_openai_messages hold at most one system
\* message; when one is set it is the first element, and it is the one set
\* last (set_system_message replaces, it does not add).
C11_OneSystemMessageFirst ==
    LET all == get_messages(system_message, messages)
        sent == get_openai_messages(system_message, messages)
    IN  /\ Cardinality(SystemPositions(all)) <= 1
        /\ Cardinality(SystemPositions(sent)) <= 1
        /\ Len(sent) = Len(all)
        /\ system_message # NoMessage =>
              /\ SystemPositions(all) = {1}
              /\ SystemPositions(sent) = {1}
              /\ all[1] = system_message
              /\ sent[1].content = system_message.content
        /\ system_message = NoMessage => SystemPositions(all) = {}

C11_Witness ==
    /\ system_message # NoMessage
    /\ system_message.content = get_system_prompt({"calculator"})
    /\ Len(messages) = MaxEntries
    /\ messages[1].role = "assistant"

\* C12: in every exported ordering, every tool message is preceded by an
\* assistant message whose tool_calls list holds the tool message's
\* tool_call_id.
C12_ToolMessagesHaveRequest ==
    LET sent == get_openai_messages(system_message, messages)
    IN  \A i \in 1..Len(sent) :
            sent[i].role = "tool" =>
                \E j \in 1..(i - 1) :
                    /\ sent[j].role = "assistant"
                    /\ "tool_calls" \in DOMAIN sent[j]
                    /\ \E k \in 1..Len(sent[j].tool_calls) :
                          sent[j].tool_calls[k].id = sent[i].tool_call_id

Min(a, b) == IF a <= b THEN a ELSE b

\* C13: after every append the log holds at most MaxEntries messages, which
\* are the most recently appended ones in their order (the oldest are
\* dropped first), and the system message is left as it was.
C13_BoundedRetention ==
    [][/\ Len(messages') <= MaxEntries
       /\ (messages' # messages /\ messages' # <<>>) =>
             LET all == Append(messages, messages'[Len(messages')])
                 n == Len(messages')
             IN  /\ n = Min(Len(all), MaxEntries)
                 /\ messages' = SubSeq(all, Len(all) - n + 1, Len(all))
                 /\ system_message' = system_message
                 /\ get_messages(system_message', messages')
                       = get_messages(system_message, <<>>) \o messages'
      ]_vars

C13_Witness ==
    /\ Len(messages) = MaxEntries
    /\ messages[1].role = "tool"
    /\ messages[MaxEntries].role = "user"
    /\ system_message # NoMessage

\* C14: add_file then get_file gives the content, abstract and metadata that
\* were added, also on a path that had an entry (the whole entry is
\* overwritten); remove_file returns true exactly for a present path, after
\* it get_file reports absent; both leave every other entry as it was.
C14_FileRoundTrip ==
    /\ \A path \in FilePaths, content \in FileContents,
          abstract \in Abstracts, metadata \in Metadatas :
          LET after == add_file(files, path, content, abstract, metadata)
              got == get_file(after, path)
          IN  /\ got # NoFile
              /\ got.path = path
              /\ got.content = content
              /\ got.abstract = abstract
              /\ DOMAIN got.metadata = DOMAIN metadata
              /\ \A k \in DOMAIN metadata : got.metadata[k] = metadata[k]
              /\ DOMAIN after = DOMAIN files \cup {path}
              /\ \A q \in DOMAIN files \ {path} : get_file(after, q) = files[q]
    /\ \A path \in FilePaths :
          LET after == remove_file(files, path)
          IN  /\ remove_file_returns(files, path) = (path \in DOMAIN files)
              /\ get_file(after, path) = NoFile
              /\ DOMAIN after = DOMAIN files \ {path}
              /\ \A q \in DOMAIN files \ {path} : get_file(after, q) = files[q]

C14_Witness ==
    /\ DOMAIN files = Paths
    /\ get_file(files, "a.py").content = "print(2)"
    /\ DOMAIN get_file(files, "a.py").metadata = {"reviewed"}
    /\ get_file(files, "notes.md").content = None
    /\ get_file(files, "missing.txt") = NoFile

SameSize(c1, c2) ==
    IF Truthy(c1) /\ Truthy(c2) THEN Len(c1) = Len(c2)
    ELSE ~Truthy(c1) /\ ~Truthy(c2)

\* C16: the files summary lists the path, the size (or the not-loaded
\* marker) and the abstract of every entry, and it is the same for two
\* tables that differ only in the text of contents of equal size.
C16_SummaryHidesContent ==
    LET summary == get_files_summary(files)
    IN  /\ summary.count = Cardinality(DOMAIN files)
        /\ summary.lines =
              {[path |-> p,
                size_info |-> IF Truthy(files[p].content)
                              THEN Len(files[p].content) ELSE -1,
                abstract |-> files[p].abstract] : p \in DOMAIN files}
        /\ \A p \in DOMAIN files, c \in FileContents :
              SameSize(c, files[p].content) =>
                 get_files_summary([files EXCEPT ![p].content = c]) = summary

C16_Witness ==
    /\ DOMAIN files = Paths
    /\ files["a.py"].content = "print(1)"
    /\ files["notes.md"].content = None
    /\ get_files_summary(files).count = 2

\* whether an absolute path is a root or lies below one
Within(segs, root) ==
    Len(segs) >= Len(root) /\ SubSeq(segs, 1, Len(root)) = root

InsideRoots(segs) ==
    \E allowed_dir \in AllowedDirectories : Within(segs, abspath(allowed_dir))

\* the path argument of a dispatched call of a file tool
DispatchedPath ==
    LET kwargs == dispatched.arguments.val
    IN  IF "file_path" \in DOMAIN kwargs THEN kwargs["file_path"]
        ELSE IF "directory_path" \in DOMAIN kwargs
        THEN kwargs["directory_path"]
        ELSE kwargs["path"]

\* a read, write or list operation of a file tool was dispatched
FileOperationDispatched ==
    /\ dispatched.op = "_execute_tool"
    /\ dispatched.tool_name \in FileTools
    /\ dispatched.tool_name \in tools
    /\ dispatched.tool_name = "file" =>
          dispatched.arguments.val["operation"] \in {"read", "write", "list"}

\* the call was refused with a permission error and touched no file
RefusedWithPermissionError ==
    /\ dispatched.outcome.kind = "return"
    /\ dispatched.outcome.value.status = TOOL_ERROR
    /\ dispatched.outcome.value.error_message
          = "Tool execution error: " \o Refused
    /\ file_tool_run(dispatched.tool_name, dispatched.arguments.val).read = {}
    /\ file_tool_run(dispatched.tool_name, dispatched.arguments.val).written
          = {}

\* C17: a file tool given a path whose normalized absolute form is outside
\* every allowed root returns a ToolResult of status error carrying the
\* permission error, and reads and writes no file.
C17_OutsideRootsRefused ==
    (FileOperationDispatched /\ ~InsideRoots(abspath(DispatchedPath))) =>
        RefusedWithPermissionError

\* C18: a file tool given a path that is lexically inside an allowed root
\* but resolves through a symbolic link to a target outside every allowed
\* root refuses it with a permission error.
C18_SymlinkTargetChecked ==
    (/\ FileOperationDispatched
     /\ InsideRoots(abspath(DispatchedPath))
     /\ ~InsideRoots(realpath(abspath(DispatchedPath)))) =>
        RefusedWithPermissionError


\* the value remove_tool returns
remove_tool_returns(registry, tool_name) == tool_name \in registry

\* the tool names of the declarations of a model request
DeclaredNames(declarations) == {d.function.name : d \in declarations}

\* the system message held by the memory describes exactly the registered
\* tools, which are exactly the tools declared to the model
ToolsConsistent ==
    /\ system_message # NoMessage =>
          system_message.content.tools_description = tools
    /\ DeclaredNames(get_tools_for_api(tools)) = tools

\* C19: after construction with the default prompt and after any sequence
\* of add_tool and remove_tool calls, the tools described in the system
\* message, the names in the tool registry and the declarations of the next
\* model request are the same set; remove_tool of an unregistered name
\* returns false and changes nothing.
C19_PromptMatchesRegistry ==
    /\ []ToolsConsistent
    /\ [][\A tool_name \in {"calculator", "shell", UnknownTool} :
            (tool_name \notin tools /\ remove_tool(tool_name)) =>
                (~remove_tool_returns(tools, tool_name) /\ UNCHANGED vars)]_vars

C19_Witness ==
    /\ "shell" \in tools
    /\ "calculator" \notin tools
    /\ system_message # NoMessage
    /\ system_message.content.tools_description = tools
    /\ DeclaredNames(get_tools_for_api(tools)) = {"shell", "execute_code"}


\* what is observed through the first agent
Agent1View ==
    [messages |-> messages, system_message |-> system_message,
     files |-> files, steps |-> steps, current_step |-> current_step,
     state |-> state]

\* what is observed through the second agent
Agent2View ==
    [messages |-> Memory2.messages, system_message |-> Memory2.system_message,
     files |-> Memory2.files, steps |-> agent2.steps,
     current_step |-> agent2.current_step, state |-> agent2.state]

\* neither agent was given a memory by its constructor's caller
BothDefaultMemory == agent2.constructed /\ agent2.memory = agent_memory(None)

\* C20: two agents constructed in one process without an explicitly passed
\* memory share no mutable state: constructing the second changes nothing
\* observed through the first, and no operation on one of them (run, reset,
\* add_tool, a file-context operation) changes what is observed through
\* both.
C20_AgentsShareNothing ==
    [][/\ (~agent2.constructed /\ BothDefaultMemory') =>
              Agent1View' = Agent1View
       /\ (BothDefaultMemory /\ BothDefaultMemory') =>
              (Agent1View' = Agent1View \/ Agent2View' = Agent2View)]_vars


\* a run is about to issue a model request
RequestPending == running /\ current_step < MaxIterations

\* the file summaries carried by the system message of the next request
SentFileSummaries ==
    UNION {UNION {request_messages[i].content.workspace_section[k]
                     .files_summary.lines :
                  k \in 1..Len(request_messages[i].content.workspace_section)} :
           i \in SystemPositions(request_messages)}

\* C21: the system message sent to the model by a run contains the summary
\* of every file of the current file-context table, in particular of a file
\* added with add_file_to_context before the run.
C21_PromptReflectsFiles ==
    RequestPending =>
        \A path \in DOMAIN files :
            get_summary(files[path]) \in SentFileSummaries


\* the step is an iteration of run whose response carries directives
ToolIteration ==
    /\ running
    /\ Len(responses') = Len(responses) + 1
    /\ HasToolCalls(responses'[Len(responses')])

\* the last n entries of a sequence (all of it if it is shorter)
LastN(seq, n) == SubSeq(seq, Len(seq) - Min(n, Len(seq)) + 1, Len(seq))

\* the roles an iteration with n directives appends
AppendedRoles(n) == <<"assistant">> \o [i \in 1..n |-> "tool"]

\* C22: an iteration whose response carries N >= 1 directives appends to
\* Conversation Memory one assistant message followed by N tool messages
\* (the retention cap may evict the oldest of them), and the assistant
\* message records each directive's name and raw argument payload as the
\* backend issued them.
C22_AssistantThenToolMessages ==
    [][ToolIteration =>
        LET tc == responses'[Len(responses')].message.tool_calls
            N == Len(tc)
            kept == Min(N + 1, MaxEntries)
            tail == LastN(messages', kept)
        IN  /\ Len(messages') >= kept
            /\ [i \in 1..Len(tail) |-> tail[i].role]
                  = LastN(AppendedRoles(N), kept)
            /\ (kept = N + 1) =>
                  /\ "tool_calls" \in DOMAIN tail[1].metadata
                  /\ Len(tail[1].metadata["tool_calls"]) = N
                  /\ \A i \in 1..N :
                       /\ tail[1].metadata["tool_calls"][i].function.name
                             = tc[i].name
                       /\ tail[1].metadata["tool_calls"][i].function.arguments
                             = tc[i].arguments]_vars


\* what began and ended in the stepwise calls of _process_tool_calls
Events == IF dispatched.op \in LoopOps THEN dispatched.events ELSE <<>>

\* the tool executions in progress
Executing == IF dispatched.op \in LoopOps THEN dispatched.executing ELSE {}

\* the event j is the begin of an execution that follows the end of the
\* execution of the directive before it in the same call
BeginsInOrder(j) ==
    Events[j].kind = "begin" =>
        /\ (j > 1 /\ Events[j - 1].call = Events[j].call) =>
              /\ Events[j - 1].kind = "end"
              /\ Events[j - 1].index = Events[j].index - 1
        /\ (j = 1 \/ Events[j - 1].call # Events[j].call) =>
              Events[j].index = 1

\* the event j is the end of the execution that began just before it
EndsItsBegin(j) ==
    Events[j].kind = "end" =>
        /\ j > 1
        /\ Events[j - 1] = [Events[j] EXCEPT !.kind = "begin"]

\* C23: within one call of the dispatch loop the i-th directive's tool
\* execution ends before the (i+1)-th begins, at most one tool execution is
\* in progress at any time, none is in progress while a run issues model
\* requests, and a step of a run issues at most one model request, each
\* answered before the next is issued.
C23_StrictlySequential ==
    /\ [](/\ Cardinality(Executing) <= 1
          /\ \A j \in 1..Len(Events) : BeginsInOrder(j) /\ EndsItsBegin(j)
          /\ running => (Executing = {} /\ current_step = Len(responses)))
    /\ [][Len(responses') <= Len(responses) + 1]_vars

C23_Witness ==
    /\ dispatched.op = "returned"
    /\ dispatched.call = 2
    /\ Len(dispatched.tool_calls) = 2
    /\ Len(Events) >= 6
    /\ Events[Len(Events)] = [kind |-> "end", call |-> 2, index |-> 2]


\* the ids given to the directives dispatched so far, call after call
Given == IF dispatched.op \in LoopOps THEN dispatched.given ELSE <<>>

\* the directive carries no id of the backend
LacksId(directive) == directive.id = None \/ directive.id = NoAttr

\* C24: two directives that lack a backend id never receive the same
\* tool_call_id, also when they call the same tool at the same position in
\* two different iterations (two calls of the dispatch loop).
C24_FallbackIdsUnique ==
    \A a, b \in 1..Len(Given) :
        (a # b /\ LacksId(Given[a].directive) /\ LacksId(Given[b].directive))
            => Given[a].call_id # Given[b].call_id


\* the arguments _process_tool_calls passes for a directive: the decoded
\* payload, or the empty map when it is not valid JSON
DirectiveArguments(directive) ==
    IF json_loads(directive.arguments).kind = "raise"
    THEN PyDict(EmptyDict)
    ELSE json_loads(directive.arguments).value

\* the outcome of dispatching the directive of an entry of Given
Dispatch(g) ==
    execute_tool(tools, g.directive.name, DirectiveArguments(g.directive),
                 g.env)

\* the dispatched directives whose dispatch returned a result
Returned == SelectSeq(Given, LAMBDA g : Dispatch(g).kind = "return")

\* C25: whenever no tool dispatch is in progress, also after a later
\* directive raised, every step's tool_calls and tool_results have equal
\* length, and the i-th result is the result of dispatching the i-th call,
\* which is the i-th dispatched directive.
C25_ResultsAlignedWithCalls ==
    Executing = {} =>
        \A s \in 1..Len(steps) :
            /\ Len(steps[s].tool_calls) = Len(steps[s].tool_results)
            /\ Len(steps[s].tool_calls) = Len(Returned)
            /\ \A i \in 1..Len(steps[s].tool_calls) :
                 /\ steps[s].tool_calls[i]
                       = ToolCall(Returned[i].directive.name,
                                  DirectiveArguments(Returned[i].directive),
                                  Returned[i].call_id)
                 /\ steps[s].tool_results[i] = Dispatch(Returned[i]).value

C25_Witness ==
    /\ dispatched.op = "raised"
    /\ Executing = {}
    /\ Len(steps) = 1
    /\ Len(steps[1].tool_calls) = 2
    /\ Len(steps[1].tool_results) = 2
    /\ raised.type = "TypeError"


\* the transitions of the loop's state machine while a run is in progress
LoopTransitions ==
    {<<THINKING, EXECUTING>>, <<EXECUTING, THINKING>>, <<THINKING, COMPLETED>>}
    \cup {<<s, ERROR>> : s \in {THINKING, EXECUTING}}
    \cup {<<s, STOPPED>> : s \in {THINKING, EXECUTING}}

\* every change along a sequence of states is a transition of the machine
PathAllowed(path) ==
    \A j \in 1..(Len(path) - 1) :
        path[j] # path[j + 1] => <<path[j], path[j + 1]>> \in LoopTransitions

\* C26: a run enters Thinking, every state change of an iteration is a
\* transition of the loop's state machine, an exhausted loop goes to
\* Stopped, and when run() returns the state is Completed, Stopped or Error,
\* Completed exactly when the response has success = true.
C26_StateMachine ==
    [][/\ (~running /\ running') => state' = THINKING
       /\ (running /\ Len(responses') = Len(responses) + 1) =>
            \E envs \in EnvLists(
                    Len(responses'[Len(responses')].message.tool_calls), Envs) :
                LET it == Iteration(responses'[Len(responses')], envs,
                                    current_step + 1)
                    path == <<state>> \o iteration_states(it)
                IN  /\ it.steps = steps'
                    /\ it.messages = messages'
                    /\ path[Len(path)] = state'
                    /\ PathAllowed(path)
       /\ (running /\ responses' = responses /\ ~running') =>
            state' = STOPPED
       /\ (running /\ ~running') =>
            /\ state' \in {COMPLETED, STOPPED, ERROR}
            /\ raised' = NoException
            /\ (state' = COMPLETED) <=> (result'.success = TRUE)]_vars

C26_Witness ==
    /\ RunOver
    /\ state = ERROR
    /\ result.success = FALSE
    /\ responses # <<>>
    /\ HasToolCalls(LastResponse)
    /\ Len(LastResponse.message.tool_calls) = 2

----------------------------------------------------------------------------
(* C27                                                                     *)

\* the response the caller holds, as the caller reads it now
HeldResponse == read_held(held_response, steps)

\* a call of run() hands a new response to the caller in this step
RunReturns == running /\ ~running' /\ result' # NoResponse

----------------------------------------------------------------------------
(* C28                                                                     *)

\* the workspace section the system message carried after construction
ConstructedSection ==
    inject_workspace_to_prompt(get_system_prompt({}), <<>>, EmptyDict)
        .workspace_section

\* C28: after add_tool or remove_tool has changed the tool set, the system
\* message still carries the workspace path, file-context summary and
\* working-memory section it carried after construction, and a system
\* message that was there before differs from the new one in its tool list
\* only.
C28_ToolChangeKeepsWorkspaceSection ==
    [][tools' # tools =>
          /\ system_message'.content.workspace_section = ConstructedSection
          /\ system_message # NoMessage =>
                system_message' =
                    [system_message EXCEPT
                        !.content.tools_description = tools']]_vars


----------------------------------------------------------------------------
(* ShellTool constructed with a policy and a whitelist, and one run of it  *)

\* the policies given to the constructor: none, the three of the module
\* header and one that is none of them
ShellPolicies == {None, "allow_all", "deny_all", "whitelist", "sandbox"}

\* the whitelists given to the constructor ({}: none or an empty list)
ShellWhitelists == {{}, {"git"}, {"ls", "cat"}, {"echo"}}

\* ShellTool(policy, whitelist).run(command=command): subprocess.run is
\* reached when _is_command_allowed allows the command (the working
\* directory defaults to os.getcwd(), which exists)
call_shell_tool(policy, whitelist, command, env) ==
    /\ ~running
    /\ LET self == ShellTool_init(policy, whitelist)
       IN  dispatched' =
              [op |-> "shell",
               policy |-> self.policy,
               whitelist |-> self.whitelist,
               command |-> command,
               env |-> env,
               executed |->
                   command_allowed(self.policy, self.whitelist, command),
               result |->
                   run_result("shell",
                       shell_outcome(
                           command_allowed(self.policy, self.whitelist,
                                           command), env))]
    /\ raised' = NoException
    /\ UNCHANGED <<agent_vars, tools, tool_call_ids, memory_vars, running,
                   responses, result, held_response, agent2>>

InitShell == InitWith({"shell"})

NextShell ==
    \E policy \in ShellPolicies, whitelist \in ShellWhitelists,
       command \in ShellCommands, env \in Envs :
        call_shell_tool(policy, whitelist, command, env)

SpecShell == InitShell /\ [][NextShell]_vars

----------------------------------------------------------------------------
(* C29                                                                     *)

\* a shell command was handed to subprocess.run
ShellExecuted == dispatched.op = "shell" /\ dispatched.executed

\* the command contains one of the blacklisted patterns
Dangerous(command) ==
    \E d \in DANGEROUS_COMMANDS : CommandContains(command, d)

\* the command name is one of the whitelisted commands
NameWhitelisted(command, whitelist) ==
    \E allowed \in whitelist : CommandName(command) = lower(Chars(allowed))

\* under deny_all nothing is executed, and nothing dangerous under any policy
ShellDenyAndBlacklist ==
    ShellExecuted =>
        /\ dispatched.policy # "deny_all"
        /\ ~Dangerous(dispatched.command)

\* C29: the shell tool executes no command its policy forbids: none under
\* deny_all, none that contains a blacklisted pattern under any policy, and
\* under whitelist only a command whose command name is one of the
\* whitelisted commands.
C29_ShellPolicyEnforced ==
    ShellExecuted =>
        /\ dispatched.policy # "deny_all"
        /\ ~Dangerous(dispatched.command)
        /\ dispatched.policy = "whitelist" =>
              NameWhitelisted(dispatched.command, dispatched.whitelist)


----------------------------------------------------------------------------
(* C30                                                                     *)

\* the interpreter goes on with a run that was called: the loop condition is
\* evaluated again and the request and the tool executions of the iteration
\* return
RunStep ==
    \E response \in Responses :
        \E envs \in EnvLists(Len(response.message.tool_calls), Envs) :
            run_loop(response, envs)

\* runs of one agent, each carried on once it was called, with resets and
\* clearings of the memory between them
NextRun ==
    \/ \E user_input \in UserInputs : run_start(user_input)
    \/ RunStep
    \/ reset
    \/ \E keep_system \in BOOLEAN : clear(keep_system)

SpecRun == Init /\ [][NextRun]_vars /\ WF_vars(RunStep)

\* C30: every run() that was called terminates, whatever the backend
\* answers; it issues at most max_iterations model requests, and the
\* total_iterations of the response it returns is the number of model
\* requests it issued.
C30_RunTerminates ==
    /\ [](Len(responses) <= MaxIterations)
    /\ []((~running /\ result # NoResponse) =>
              result.total_iterations = Len(responses))
    /\ (running ~> ~running)

\* a run has returned a response after a model request
C30_Witness ==
    /\ ~running
    /\ result # NoResponse
    /\ Len(responses) >= 1
    /\ result.total_iterations = Len(responses)

====
